---- MODULE Spec2Model ----
(***************************************************************************)
(* Model of the two feature calculators of bybit-smm:                      *)
(*                                                                         *)
(*   src/strategy/features/ob_imbalance.py      orderbook_imbalance        *)
(*   src/strategy/features/trades_imbalance.py  trades_imbalance           *)
(*                                                                         *)
(* Numbers.  A float64 is a record [k, n, d]: k = "fin" is the rational    *)
(* n/d (d > 0, lowest terms), k = "inf" is +/-infinity (sign n), k = "nan" *)
(* is NaN.  Logarithms are fixed point, in thousandths (LnTable).  Both    *)
(* functions are compiled with @njit(cache=True): numba's default error    *)
(* model is the Python one, so a float division by zero raises             *)
(* ZeroDivisionError instead of producing inf or NaN, and array reads are  *)
(* not bounds checked, so a read past the end yields an arbitrary value    *)
(* (the parameter junk of the operators below).                            *)
(*                                                                         *)
(* Indices.  The code's arrays are 0-based, TLA+ sequences 1-based: the    *)
(* code's index i is position i + 1 of the sequence.  Loop counters and    *)
(* the recorded read indices keep the code's 0-based numbering.            *)
(***************************************************************************)
EXTENDS Integers, Sequences, FiniteSets, TLC

\* ------------------------------------------------------------- bounds
MaxLevels == 2      \* levels per order-book side
MaxDepths == 2      \* depth thresholds per call
MaxTrades == 3      \* trades on the tape
NWorkers == 2       \* parallel callers of the session specification

\* ------------------------------------------------------------- input universes
BidPrices == {1000, 700}
AskPrices == {1010, 1300}
Quantities == {0, 1}
Sizes == {0, 1, 2}
Sides == {0, 1}                       \* 0 => buy, 1 => sell
\* a depth is m * 10^e basis points: 10 bps and 0.00001 bps
DepthValues == {[m |-> 1, e |-> 1], [m |-> 1, e |-> -5]}
Windows == (-1) .. (MaxTrades + 1)
Gens == {"flat", "half", "step"}

SeqsUpTo(S, n) == UNION {[1 .. k -> S] : k \in 0 .. n}

Levels(P) == [p : P, q : Quantities]
BidSides == SeqsUpTo(Levels(BidPrices), MaxLevels)
AskSides == SeqsUpTo(Levels(AskPrices), MaxLevels)
DepthSets == SeqsUpTo(DepthValues, MaxDepths)
TradeRecords == [side : Sides, size : Sizes]
TradeTapes == SeqsUpTo(TradeRecords, MaxTrades)
\* what an unchecked read past the end of an array may yield
JunkPrices == {0, 1000}
JunkTrades == [side : Sides, size : {0, 2}]

\* ------------------------------------------------------------- float64
Fin(n, d) == [k |-> "fin", n |-> n, d |-> d]
Inf(s) == [k |-> "inf", n |-> s, d |-> 1]
NaN == [k |-> "nan", n |-> 0, d |-> 1]
NoValue == [k |-> "none", n |-> 0, d |-> 1]
Zero == Fin(0, 1)

Abs(x) == IF x < 0 THEN -x ELSE x
Min(a, b) == IF a <= b THEN a ELSE b

RECURSIVE Gcd(_, _)
Gcd(a, b) == IF b = 0 THEN a ELSE Gcd(b, a % b)

RECURSIVE Pow10(_)
Pow10(k) == IF k <= 0 THEN 1 ELSE 10 * Pow10(k - 1)

RECURSIVE Pow2(_)
Pow2(k) == IF k <= 0 THEN 1 ELSE 2 * Pow2(k - 1)

\* the quotient a / b of two finite numbers, b # 0, in lowest terms
Quot(a, b) ==
    LET s == IF b < 0 THEN -1 ELSE 1
        g == Gcd(Abs(a), Abs(b))
    IN  Fin((s * a) \div g, (s * b) \div g)

\* an outcome of a call: a returned float64 or a raised error
Returned(v) == [st |-> "ret", val |-> v, err |-> "none"]
Raised(e) == [st |-> "raise", val |-> NoValue, err |-> e]
Pending == [st |-> "run", val |-> NoValue, err |-> "none"]

\* a / b on float64 scalars inside @njit code (Python error model)
FloatDiv(a, b) ==
    IF b = 0 THEN Raised("ZeroDivisionError") ELSE Returned(Quot(a, b))

\* ln(1), ln(2), ... ln(8) in thousandths
LnTable == <<0, 693, 1099, 1386, 1609, 1792, 1946, 2079>>

\* np.log of the finite number n/d >= 0 (lowest terms)
Log(x) ==
    IF x.n = 0 THEN Inf(-1)
    ELSE IF x.n < 0 THEN NaN
    ELSE Fin(LnTable[x.n] - LnTable[x.d], 1)

\* x * w for a float64 x (of denominator 1) and a finite weight w >= 0
FMul(x, w) ==
    CASE x.k = "fin" -> Fin(x.n * w, 1)
      [] x.k = "inf" -> IF w = 0 THEN NaN ELSE Inf(x.n)
      [] OTHER -> NaN

FAdd(x, y) ==
    CASE x.k = "nan" \/ y.k = "nan" -> NaN
      [] x.k = "inf" /\ y.k = "inf" -> IF x.n = y.n THEN x ELSE NaN
      [] x.k = "inf" -> x
      [] y.k = "inf" -> y
      [] OTHER -> Fin(x.n + y.n, 1)

IsFinite(x) == x.k = "fin"

\* ------------------------------------------------------------- ema_weights
\* The weight generator (src.indicators.ema.ema_weights) is not among the
\* sources; it is modelled from its contract: n non-negative weights of a
\* fixed sum, decaying geometrically from the high-weight end, reverse
\* swapping which end is high.  Weights are integers in units of 1/sum; gen
\* names the decay: "flat" ratio 1, "half" ratio 1/2, "step" ratio 0.
ForwardWeight(gen, n, i) ==
    CASE gen = "flat" -> 1
      [] gen = "half" -> Pow2(n - i)
      [] OTHER -> IF i = 1 THEN 1 ELSE 0

ema_weights(gen, n, reverse) ==
    [i \in 1 .. n |->
        IF reverse THEN ForwardWeight(gen, n, n + 1 - i)
        ELSE ForwardWeight(gen, n, i)]

\* ------------------------------------------------------------- trades_imbalance
\* window = min(window, trades.shape[0])
\* (faulty variant: the clamp left out)
EffectiveWindowUnclamped(window, ntrades) == window
EffectiveWindow(window, ntrades) == Min(window, ntrades)

\* trades[i, 1] and trades[i, 3] for the code's index i; unchecked
TradeAt(trades, i, junk) ==
    IF i >= 0 /\ i < Len(trades) THEN trades[i + 1]
    ELSE junk

\* np.log(1 + size) * weights[i]
WeightedQty(size, w) == Log(Fin(1 + size, 1)).n * w

\* trade_side == 0.0
\* (faulty variant: the test inverted)
IsBuyFlipped(side) == side = 1
IsBuy(side) == side = 0

\* (delta_buys - delta_sells) / (delta_buys + delta_sells)
\* (faulty variant: numerator and denominator exchanged)
TradesRatioSwapped(delta_buys, delta_sells) ==
    FloatDiv(delta_buys + delta_sells, delta_buys - delta_sells)
TradesRatio(delta_buys, delta_sells) ==
    FloatDiv(delta_buys - delta_sells, delta_buys + delta_sells)

\* lines 50-52: the clamp, the weight request, the two accumulators.  A
\* request for a negative number of weights is outside the generator's
\* contract: it is taken to fail inside the generator (np.empty of a negative
\* length raises ValueError).
TREnter(trades, window, gen) ==
    LET w == EffectiveWindow(window, Len(trades))
    IN  [fn |-> "tr",
         pc |-> IF w < 0 THEN "done" ELSE "loop",
         requested |-> window,
         window |-> w,
         wreq |-> <<[n |-> w, reverse |-> TRUE]>>,
         weights |-> IF w < 0 THEN <<>> ELSE ema_weights(gen, w, TRUE),
         i |-> 0,
         delta_buys |-> 0,
         delta_sells |-> 0,
         reads |-> {},
         out |-> IF w < 0 THEN Raised("ValueError") ELSE Pending]

\* lines 54-61: one iteration of the loop, or its exit to line 63
TRIter(f, trades, junk) ==
    IF f.i >= f.window THEN
        [f EXCEPT !.pc = "done",
                  !.out = TradesRatio(f.delta_buys, f.delta_sells)]
    ELSE
        LET t == TradeAt(trades, f.i, junk)
            weighted_qty == WeightedQty(t.size, f.weights[f.i + 1])
        IN  [f EXCEPT !.i = f.i + 1,
                      !.reads = f.reads \cup {f.i},
                      !.delta_buys =
                          IF IsBuy(t.side) THEN f.delta_buys + weighted_qty
                          ELSE f.delta_buys,
                      !.delta_sells =
                          IF IsBuy(t.side) THEN f.delta_sells
                          ELSE f.delta_sells + weighted_qty]

RECURSIVE TRRun(_, _, _)
TRRun(f, trades, junk) ==
    IF f.pc = "done" THEN f ELSE TRRun(TRIter(f, trades, junk), trades, junk)

trades_imbalance(trades, window, gen, junk) ==
    TRRun(TREnter(trades, window, gen), trades, junk)

\* ------------------------------------------------------------- orderbook_imbalance
\* depths / 1e-4 (line 78), element by element: m * 10^e becomes m * 10^(e+4)
ConvertDepth(d) == [m |-> d.m, e |-> d.e + 4]

\* what line 78 leaves in the caller's array: depths = depths / 1e-4 binds
\* the local name to a new array, the argument is not written
\* (faulty variant: depths /= 1e-4 writes the argument)
CallerDepthsInPlace(depths, converted) == converted
CallerDepthsAfter(depths, converted) == depths

\* bids.T / asks.T unpacked into the price and the quantity column
PriceColumn(side) == [j \in 1 .. Len(side) |-> side[j].p]
QtyColumn(side) == [j \in 1 .. Len(side) |-> side[j].q]

\* bid_p[0], ask_p[0]; unchecked
BestPrice(prices, junk) == IF Len(prices) > 0 THEN prices[1] ELSE junk

\* best_bid_p * (1 - depths[i]) as the rational n/d, depths[i] = m * 10^e
MinBid(best, f) ==
    IF f.e >= 0 THEN [n |-> best * (1 - f.m * Pow10(f.e)), d |-> 1]
    ELSE [n |-> best * (Pow10(-f.e) - f.m), d |-> Pow10(-f.e)]

\* best_ask_p * (1 + depths[i])
MaxAsk(best, f) ==
    IF f.e >= 0 THEN [n |-> best * (1 + f.m * Pow10(f.e)), d |-> 1]
    ELSE [n |-> best * (Pow10(-f.e) + f.m), d |-> Pow10(-f.e)]

\* bid_p[bid_p >= min_bid].size
NumBidsWithin(bid_p, min_bid) ==
    Cardinality({j \in 1 .. Len(bid_p) : bid_p[j] * min_bid.d >= min_bid.n})

\* ask_p[ask_p <= max_ask].size
NumAsksWithin(ask_p, max_ask) ==
    Cardinality({j \in 1 .. Len(ask_p) : ask_p[j] * max_ask.d <= max_ask.n})

\* np.sum(q[:k])
RECURSIVE SumFirst(_, _)
SumFirst(q, k) == IF k <= 0 THEN 0 ELSE q[k] + SumFirst(q, k - 1)

\* (faulty variant: the slice one short)
SumPrefixDropLast(q, k) == SumFirst(q, Min(k, Len(q)) - 1)
SumPrefix(q, k) == SumFirst(q, Min(k, Len(q)))

\* np.log(total_bid / total_ask): the division, then the logarithm
\* (faulty variant: np.log1p of the ratio)
LogRatioLog1p(total_bid, total_ask) ==
    LET r == FloatDiv(total_bid + total_ask, total_ask)
    IN  IF r.st = "raise" THEN r ELSE Returned(Log(r.val))
LogRatio(total_bid, total_ask) ==
    LET r == FloatDiv(total_bid, total_ask)
    IN  IF r.st = "raise" THEN r ELSE Returned(Log(r.val))

\* np.sum(imbalances * weights)
RECURSIVE WeightedSum(_, _, _)
WeightedSum(imbalances, weights, k) ==
    IF k <= 0 THEN Zero
    ELSE FAdd(WeightedSum(imbalances, weights, k - 1),
              FMul(imbalances[k], weights[k]))

\* lines 77-84: the conversion, the weight request, the columns, the touch
OBEnter(bids, asks, depths, gen, junk) ==
    LET converted == [i \in 1 .. Len(depths) |-> ConvertDepth(depths[i])]
    IN  [fn |-> "ob",
         pc |-> "loop",
         num_depths |-> Len(depths),
         depths |-> converted,
         caller_depths |-> CallerDepthsAfter(depths, converted),
         wreq |-> <<[n |-> Len(depths), reverse |-> FALSE]>>,
         weights |-> ema_weights(gen, Len(depths), FALSE),
         imbalances |-> <<>>,
         per |-> <<>>,
         best_bid_p |-> BestPrice(PriceColumn(bids), junk),
         best_ask_p |-> BestPrice(PriceColumn(asks), junk),
         i |-> 0,
         out |-> Pending]

\* lines 86-95: one iteration of the loop, or its exit to lines 97-99
OBIter(f, bids, asks) ==
    IF f.i >= f.num_depths THEN
        [f EXCEPT !.pc = "done",
                  !.out = Returned(WeightedSum(f.imbalances, f.weights,
                                               f.num_depths))]
    ELSE
        LET min_bid == MinBid(f.best_bid_p, f.depths[f.i + 1])
            max_ask == MaxAsk(f.best_ask_p, f.depths[f.i + 1])
            num_bids == NumBidsWithin(PriceColumn(bids), min_bid)
            num_asks == NumAsksWithin(PriceColumn(asks), max_ask)
            total_bid == SumPrefix(QtyColumn(bids), num_bids)
            total_ask == SumPrefix(QtyColumn(asks), num_asks)
            r == LogRatio(total_bid, total_ask)
            seen == Append(f.per, [min_bid |-> min_bid, max_ask |-> max_ask,
                                   num_bids |-> num_bids, num_asks |-> num_asks,
                                   total_bid |-> total_bid,
                                   total_ask |-> total_ask,
                                   imbalance |-> r])
        IN  IF r.st = "raise" THEN
                [f EXCEPT !.pc = "done", !.per = seen, !.out = r]
            ELSE
                [f EXCEPT !.i = f.i + 1, !.per = seen,
                          !.imbalances = Append(f.imbalances, r.val)]

RECURSIVE OBRun(_, _, _)
OBRun(f, bids, asks) ==
    IF f.pc = "done" THEN f ELSE OBRun(OBIter(f, bids, asks), bids, asks)

orderbook_imbalance(bids, asks, depths, gen, junk) ==
    OBRun(OBEnter(bids, asks, depths, gen, junk), bids, asks)

\* ------------------------------------------------------------- state
VARIABLES
    gen,      \* the decay of the weight generator in use
    call,     \* the arguments of the call in hand, as the caller passed them
    mem,      \* the caller's arrays, as the call left them
    out,      \* the frame of the call in hand when it ended
    fr,       \* session: each worker's frame
    first     \* session: the first outcome seen for each call

vars == <<gen, call, mem, out, fr, first>>

NoArrays == [bids |-> <<>>, asks |-> <<>>, depths |-> <<>>, trades |-> <<>>]
NoCall == [fn |-> "none", bids |-> <<>>, asks |-> <<>>, depths |-> <<>>,
           trades |-> <<>>, window |-> 0]
Idle == [fn |-> "none", pc |-> "idle", out |-> Pending]

Init ==
    /\ gen \in Gens
    /\ call = NoCall
    /\ mem = NoArrays
    /\ out = Idle
    /\ fr = <<>>
    /\ first = <<>>

\* a caller passes a book and a depth set to orderbook_imbalance
CallOrderbook ==
    /\ call.fn = "none"
    /\ \E b \in BidSides, a \in AskSides, d \in DepthSets, junk \in JunkPrices :
        LET f == orderbook_imbalance(b, a, d, gen, junk)
        IN  /\ call' = [fn |-> "ob", bids |-> b, asks |-> a, depths |-> d,
                        trades |-> <<>>, window |-> 0]
            /\ mem' = [bids |-> b, asks |-> a, depths |-> f.caller_depths,
                       trades |-> <<>>]
            /\ out' = f
    /\ UNCHANGED <<gen, fr, first>>

\* a caller passes a tape and a window to trades_imbalance
CallTrades ==
    /\ call.fn = "none"
    /\ \E t \in TradeTapes, w \in Windows, junk \in JunkTrades :
        /\ call' = [fn |-> "tr", bids |-> <<>>, asks |-> <<>>, depths |-> <<>>,
                    trades |-> t, window |-> w]
        /\ mem' = [bids |-> <<>>, asks |-> <<>>, depths |-> <<>>, trades |-> t]
        /\ out' = trades_imbalance(t, w, gen, junk)
    /\ UNCHANGED <<gen, fr, first>>

\* the caller takes the outcome and drops the arrays
Consume ==
    /\ call.fn # "none"
    /\ call' = NoCall
    /\ mem' = NoArrays
    /\ out' = Idle
    /\ UNCHANGED <<gen, fr, first>>

Next == CallOrderbook \/ CallTrades \/ Consume

Spec == Init /\ [][Next]_vars

\* ------------------------------------------------------------- sessions
\* Parallel workers call both calculators on arrays they share; a call
\* advances one step of its loop at a time, so calls interleave.
Workers == 1 .. NWorkers

SessionBooks ==
    {[bids |-> <<[p |-> 1000, q |-> 1], [p |-> 700, q |-> 1]>>,
      asks |-> <<[p |-> 1010, q |-> 1], [p |-> 1300, q |-> 0]>>],
     [bids |-> <<[p |-> 1000, q |-> 1]>>,
      asks |-> <<[p |-> 1010, q |-> 0]>>]}
SessionDepths ==
    {<<[m |-> 1, e |-> -5], [m |-> 1, e |-> 1]>>, <<[m |-> 1, e |-> 1]>>}
SessionTapes ==
    {<<[side |-> 0, size |-> 1], [side |-> 1, size |-> 2]>>,
     <<[side |-> 1, size |-> 0]>>}
SessionWindows == {1, 2}

SessionInit ==
    /\ gen \in Gens
    /\ \E b \in SessionBooks, d \in SessionDepths, t \in SessionTapes :
        /\ mem = [bids |-> b.bids, asks |-> b.asks, depths |-> d, trades |-> t]
        /\ call = [fn |-> "session", bids |-> b.bids, asks |-> b.asks,
                   depths |-> d, trades |-> t, window |-> 0]
    /\ out = Idle
    /\ fr = [w \in Workers |-> Idle]
    /\ first = [ob |-> Pending, tr |-> [w \in SessionWindows |-> Pending]]

\* worker w enters orderbook_imbalance on the shared arrays (lines 77-84)
EnterOrderbook(w) ==
    /\ fr[w].pc = "idle"
    /\ \E junk \in JunkPrices :
        LET f == OBEnter(mem.bids, mem.asks, mem.depths, gen, junk)
        IN  /\ fr' = [fr EXCEPT ![w] = f]
            /\ mem' = [mem EXCEPT !.depths = f.caller_depths]
    /\ UNCHANGED <<gen, call, out, first>>

\* worker w enters trades_imbalance on the shared tape (lines 50-52)
EnterTrades(w) ==
    /\ fr[w].pc = "idle"
    /\ \E window \in SessionWindows :
        fr' = [fr EXCEPT ![w] = TREnter(mem.trades, window, gen)]
    /\ UNCHANGED <<gen, call, mem, out, first>>

\* worker w runs one iteration of its loop, or leaves it
Step(w) ==
    /\ fr[w].pc = "loop"
    /\ \/ /\ fr[w].fn = "ob"
          /\ fr' = [fr EXCEPT ![w] = OBIter(fr[w], mem.bids, mem.asks)]
       \/ /\ fr[w].fn = "tr"
          /\ \E junk \in JunkTrades :
                fr' = [fr EXCEPT ![w] = TRIter(fr[w], mem.trades, junk)]
    /\ UNCHANGED <<gen, call, mem, out, first>>

\* worker w hands its outcome to the caller
Return(w) ==
    /\ fr[w].pc = "done"
    /\ fr' = [fr EXCEPT ![w] = Idle]
    /\ first' =
        IF fr[w].fn = "ob" THEN
            IF first.ob = Pending THEN [first EXCEPT !.ob = fr[w].out]
            ELSE first
        ELSE
            IF first.tr[fr[w].requested] = Pending
            THEN [first EXCEPT !.tr[fr[w].requested] = fr[w].out]
            ELSE first
    /\ UNCHANGED <<gen, call, mem, out>>

SessionNext ==
    \E w \in Workers :
        EnterOrderbook(w) \/ EnterTrades(w) \/ Step(w) \/ Return(w)

SpecSession == SessionInit /\ [][SessionNext]_vars

\* ------------------------------------------------------------- reference notions
\* What the claims speak of, computed from the arguments of the call in hand.
IsTradesCall == call.fn = "tr"
IsOrderbookCall == call.fn = "ob"
ValidBook ==
    IsOrderbookCall /\ call.bids # <<>> /\ call.asks # <<>> /\ call.depths # <<>>

\* min(window, number of trades)
RefWindow == IF call.window <= Len(call.trades) THEN call.window
             ELSE Len(call.trades)

\* sum of ln(1 + size_i) * weight_i over the first k trades of the given side
RECURSIVE RefSideTotal(_, _)
RefSideTotal(side, k) ==
    IF k <= 0 THEN 0
    ELSE RefSideTotal(side, k - 1)
         + (IF call.trades[k].side = side
            THEN LnTable[1 + call.trades[k].size] * out.weights[k] ELSE 0)

RefBuyTotal == RefSideTotal(0, RefWindow)
RefSellTotal == RefSideTotal(1, RefWindow)

\* sum of the quantities of the levels of a side that satisfy a test
RECURSIVE SumWhere(_, _, _)
SumWhere(side, inband, k) ==
    IF k <= 0 THEN 0
    ELSE SumWhere(side, inband, k - 1) + (IF inband[k] THEN side[k].q ELSE 0)

BidInBand(lim) == [j \in 1 .. Len(call.bids) |-> call.bids[j].p * lim.d >= lim.n]
AskInBand(lim) == [j \in 1 .. Len(call.asks) |-> call.asks[j].p * lim.d <= lim.n]

SortedDescending(side) ==
    \A j \in 1 .. Len(side) - 1 : side[j].p >= side[j + 1].p
SortedAscending(side) ==
    \A j \in 1 .. Len(side) - 1 : side[j].p <= side[j + 1].p

\* a level at price p within d = m * 10^e basis points of the touch, with one
\* basis point 1/10000: |best - p| <= best * m * 10^(e-4)
WithinBps(p, best, d) ==
    IF d.e - 4 >= 0 THEN Abs(best - p) <= best * d.m * Pow10(d.e - 4)
    ELSE Abs(best - p) <= (best * d.m) \div Pow10(4 - d.e)

\* the band of depth i as the function computes it, from the arguments
CodeMinBid(i) == MinBid(call.bids[1].p, ConvertDepth(call.depths[i]))
CodeMaxAsk(i) == MaxAsk(call.asks[1].p, ConvertDepth(call.depths[i]))
InBandCount(inband) == Cardinality({j \in DOMAIN inband : inband[j]})
\* total_bid_i: the quantities of the first k levels, k the number of bid
\* levels inside the band of depth i
CountedBidTotal(i) ==
    SumWhere(call.bids,
             [j \in 1 .. Len(call.bids) |->
                 j <= InBandCount(BidInBand(CodeMinBid(i)))],
             Len(call.bids))

Mirrored ==
    /\ ValidBook
    /\ Len(call.bids) = Len(call.asks)
    /\ \A j \in 1 .. Len(call.bids) : call.bids[j].q = call.asks[j].q
    /\ \A i \in 1 .. Len(call.depths) :
        InBandCount(BidInBand(CodeMinBid(i))) = InBandCount(AskInBand(CodeMaxAsk(i)))

\* ------------------------------------------------------------- claims

\* C1: with sizes >= 0, window >= 1 and non-negative weights, a call of
\* trades_imbalance whose buy and sell totals do not both vanish returns a
\* finite r with -1 <= r <= 1.
C1_ResultInRange ==
    (IsTradesCall /\ call.window >= 1 /\ RefBuyTotal + RefSellTotal > 0)
    => /\ out.out.st = "ret"
       /\ IsFinite(out.out.val)
       /\ -out.out.val.d <= out.out.val.n
       /\ out.out.val.n <= out.out.val.d

C1_Witness ==
    /\ IsTradesCall /\ call.window >= 2
    /\ RefBuyTotal > 0 /\ RefSellTotal > 0 /\ RefBuyTotal # RefSellTotal
    /\ out.out.st = "ret"
    /\ Abs(out.out.val.n) < out.out.val.d

\* C2: a window of buys only, with a positive buy total, gives exactly 1; a
\* window of sells only, with a positive sell total, gives exactly -1.
C2_OneSidedWindow ==
    IsTradesCall =>
        /\ ((\A i \in 1 .. RefWindow : call.trades[i].side = 0) /\ RefBuyTotal > 0)
            => out.out = Returned(Fin(1, 1))
        /\ ((\A i \in 1 .. RefWindow : call.trades[i].side # 0) /\ RefSellTotal > 0)
            => out.out = Returned(Fin(-1, 1))

C2_Witness ==
    /\ IsTradesCall /\ RefWindow >= 2
    /\ \A i \in 1 .. RefWindow : call.trades[i].side = 1
    /\ RefSellTotal > 0
    /\ out.out = Returned(Fin(-1, 1))

\* C3 (as claimed): a window of zero-size trades, or an empty window, makes
\* trades_imbalance return NaN; it does not raise.
C3_ZeroWindowReturnsNaN ==
    (/\ IsTradesCall /\ call.window >= 1
     /\ \A i \in 1 .. RefWindow : call.trades[i].size = 0)
    => out.out = Returned(NaN)

\* C4 (as claimed): empty depths, bids or asks, and a window <= 0, are
\* rejected with an error before any weight request, summation, logarithm
\* or division.
C4_InvalidInputRejectedFirst ==
    /\ (IsOrderbookCall
        /\ (call.depths = <<>> \/ call.bids = <<>> \/ call.asks = <<>>))
        => (out.out.st = "raise" /\ out.wreq = <<>> /\ out.per = <<>>)
    /\ (IsTradesCall /\ call.window <= 0)
        => (/\ out.out.st = "raise" /\ out.wreq = <<>> /\ out.reads = {}
            /\ out.out.err # "ZeroDivisionError")

\* C5 (as claimed): a depth whose in-band ask total is 0 (bid total
\* positive), whose bid total is 0 (ask total positive), or both, has the
\* imbalance +infinity, -infinity, NaN, and the call returns a non-finite
\* value without raising.
C5_ZeroTotalsPropagate ==
    ValidBook =>
        \A i \in 1 .. Len(out.per) :
            LET r == out.per[i]
            IN  (r.total_bid = 0 \/ r.total_ask = 0) =>
                    /\ r.imbalance =
                         Returned(IF r.total_bid = 0 /\ r.total_ask = 0 THEN NaN
                                  ELSE IF r.total_ask = 0 THEN Inf(1)
                                  ELSE Inf(-1))
                    /\ out.out.st = "ret"
                    /\ ~IsFinite(out.out.val)

\* C6 (as claimed): a mirrored book has equal totals and imbalance 0 at every
\* depth, and the call returns 0.
C6_MirroredIsZero ==
    Mirrored =>
        /\ Len(out.per) = Len(call.depths)
        /\ \A i \in 1 .. Len(out.per) :
            /\ out.per[i].total_bid = out.per[i].total_ask
            /\ out.per[i].imbalance = Returned(Zero)
        /\ out.out = Returned(Zero)

\* C6 (amended): a mirrored book whose total_bid_i is positive at every depth
\* has equal totals and imbalance 0 at every depth, and the call returns 0,
\* whatever the weights.
C6_MirroredPositiveIsZero ==
    (Mirrored /\ \A i \in 1 .. Len(call.depths) : CountedBidTotal(i) > 0)
    => /\ Len(out.per) = Len(call.depths)
       /\ \A i \in 1 .. Len(out.per) :
            /\ out.per[i].total_bid = out.per[i].total_ask
            /\ out.per[i].imbalance = Returned(Zero)
       /\ out.out = Returned(Zero)

C6_Witness ==
    /\ Mirrored
    /\ Len(call.bids) = 2 /\ Len(call.depths) = 2
    /\ \A i \in 1 .. Len(call.depths) : CountedBidTotal(i) > 0
    /\ out.per[1].total_bid # out.per[2].total_bid
    /\ out.out = Returned(Zero)

\* C8 (as claimed): a depth of d basis points is converted to the fraction
\* d / 10000, so the totals of that depth hold exactly the levels within d
\* basis points of the touch.
C8_DepthIsBasisPoints ==
    ValidBook =>
        \A i \in 1 .. Len(out.per) :
            /\ out.depths[i] = [m |-> call.depths[i].m, e |-> call.depths[i].e - 4]
            /\ out.per[i].num_bids =
                 Cardinality({j \in 1 .. Len(call.bids) :
                     WithinBps(call.bids[j].p, call.bids[1].p, call.depths[i])})
            /\ out.per[i].num_asks =
                 Cardinality({j \in 1 .. Len(call.asks) :
                     WithinBps(call.asks[j].p, call.asks[1].p, call.depths[i])})

\* C9: on a book sorted outward from the touch, the prefix sums of every depth
\* are the sums over exactly the levels inside that depth's band.
C9_PrefixIsFilter ==
    (ValidBook /\ SortedDescending(call.bids) /\ SortedAscending(call.asks))
    => \A i \in 1 .. Len(out.per) :
        /\ out.per[i].total_bid =
             SumWhere(call.bids, BidInBand(out.per[i].min_bid), Len(call.bids))
        /\ out.per[i].total_ask =
             SumWhere(call.asks, AskInBand(out.per[i].max_ask), Len(call.asks))

C9_Witness ==
    /\ ValidBook /\ SortedDescending(call.bids) /\ SortedAscending(call.asks)
    /\ Len(call.bids) = 2 /\ Len(call.asks) = 2
    /\ call.bids[2].q > 0 /\ call.asks[2].q > 0
    /\ Len(out.per) = 2
    /\ out.per[1].num_bids = 1 /\ out.per[1].num_asks = 1
    /\ out.per[2].num_bids = 2 /\ out.per[2].num_asks = 2
    /\ out.per[2].total_bid = 2

C7_PureAndStateless ==
    /\ mem = [bids |-> call.bids, asks |-> call.asks, depths |-> call.depths,
              trades |-> call.trades]
    /\ \A w \in DOMAIN fr :
        fr[w].pc = "done" =>
            LET seen == IF fr[w].fn = "ob" THEN first.ob
                        ELSE first.tr[fr[w].requested]
            IN  seen = Pending \/ seen = fr[w].out

C7_Witness ==
    \E v, w \in DOMAIN fr :
        /\ v # w
        /\ fr[v].pc = "done" /\ fr[v].fn = "ob"
        /\ first.ob # Pending /\ first.ob = fr[v].out
        /\ fr[w].pc = "loop" /\ fr[w].fn = "tr" /\ fr[w].i >= 1

====
